---------------------------- MODULE Spec2Model ----------------------------
(***************************************************************************)
(* Model of libavfilter/vf_deinterlace_v4l2m2m.c: the V4L2 M2M             *)
(* deinterlacer's shared context, its OUTPUT and CAPTURE buffer pools, the *)
(* frame adapter and the reference-counted teardown.                       *)
(*                                                                         *)
(* The kernel device and the downstream consumer are the environment: the  *)
(* device answers every ioctl/poll with an outcome drawn from a small set, *)
(* the consumer releases the frames it holds in any order.                 *)
(***************************************************************************)
EXTENDS Integers, Sequences, FiniteSets, TLC

(***************************************************************************)
(* Bounds of the model.                                                    *)
(***************************************************************************)
\* largest buffer count the device grants to VIDIOC_REQBUFS
MaxGrant == 2
\* largest plane count VIDIOC_QUERYBUF reports for a multi-planar buffer
MaxPlanes == 2
\* frames pushed by upstream into filter_frame over a run
MaxSubmit == 3
\* successful VIDIOC_DQBUFs on the CAPTURE queue over a run
MaxEmit == 3
\* consecutive polls of one dequeue that a signal interrupts
MaxIntr == 2
\* the seconds around zero and around the sentinel the timestamp codec is run on
MaxSec == 3

(***************************************************************************)
(* Program constants.                                                      *)
(***************************************************************************)
USEC_PER_SEC == 1000000
\* tv_sec of the "no timestamp" encoding (tv_usec is 0)
NOPTS_TV_SEC == 1000000
\* ctx->frame_interval = 1000000 / 60
FRAME_INTERVAL == 16666
\* ctx->output.num_buffers / ctx->capture.num_buffers requested at init
OUTPUT_NUM_BUFFERS == 10
CAPTURE_NUM_BUFFERS == 8
\* AV_NOPTS_VALUE is INT64_MIN in libavutil; the least value of the model's
\* integer range stands for it (no real timestamp of the model equals it)
AV_NOPTS_VALUE == -2147483647
\* AVERROR(EAGAIN), AVERROR(ENOMEM), and AVERROR(errno) of a failed ioctl
AVERROR_EAGAIN == -11
AVERROR_ENOMEM == -12
AVERROR_EIO == -5
\* errno after an interrupted poll; the model keeps errno up to the one
\* test the code makes of it (errno == EINTR): 0 stands for any other value
EINTR == 4
\* the result of a call that does not return: no handler returns a positive
\* value
NORETURN == 1
\* the descriptor open() returns for the device node; 0..2 are the standard
\* streams, exported DMA descriptors are numbered from DevFd + 1
DevFd == 3

V4L2_FIELD_ANY == "ANY"
V4L2_FIELD_NONE == "NONE"
V4L2_FIELD_INTERLACED_TB == "INTERLACED_TB"
V4L2_FIELD_INTERLACED_BT == "INTERLACED_BT"

\* queue->buffers == NULL
NULL == <<>>
\* a V4L2Buffer* that is NULL (no slot)
NoBuf == -1
\* an AVFrame with no reference (after av_frame_unref / av_mallocz)
NoFrame == [pts |-> AV_NOPTS_VALUE, interlaced_frame |-> 0, top_field_first |-> 0, drm_fd |-> 0, ref |-> 0]

QueueNames == {"output", "capture"}
V4L2_TYPE_IS_OUTPUT(qn) == qn = "output"

\* every descriptor number the model can see
Fds == 0 .. (DevFd + MaxGrant * MaxPlanes)

(***************************************************************************)
(* Inputs.                                                                 *)
(***************************************************************************)
\* frames upstream hands to filter_frame: progressive without pts,
\* top-field-first and bottom-field-first interlaced
InFrames ==
    { [pts |-> AV_NOPTS_VALUE, interlaced_frame |-> 0, top_field_first |-> 0, drm_fd |-> 100, ref |-> 1],
      [pts |-> 40000, interlaced_frame |-> 1, top_field_first |-> 1, drm_fd |-> 101, ref |-> 1],
      [pts |-> 80000, interlaced_frame |-> 1, top_field_first |-> 0, drm_fd |-> 102, ref |-> 1] }

\* timestamps the device writes into a dequeued CAPTURE buffer: missing
\* (the sentinel), zero, and a value that is no multiple of the interval
DevTimestamps ==
    { [tv_sec |-> NOPTS_TV_SEC, tv_usec |-> 0],
      [tv_sec |-> 0, tv_usec |-> 0],
      [tv_sec |-> 0, tv_usec |-> 20000] }

(***************************************************************************)
(* C integer division and remainder (truncation toward zero).              *)
(***************************************************************************)
CDiv(a, b) == IF a >= 0 THEN a \div b ELSE -((-a) \div b)
CRem(a, b) == IF a >= 0 THEN a % b ELSE -((-a) % b)

(***************************************************************************)
(* v4l2_set_pts / v4l2_get_pts: the buffer's struct timeval.               *)
(***************************************************************************)
v4l2_set_pts(pts) ==
    IF pts = AV_NOPTS_VALUE
    THEN [tv_sec |-> NOPTS_TV_SEC, tv_usec |-> 0]
    ELSE [tv_sec |-> CDiv(pts, USEC_PER_SEC), tv_usec |-> CRem(pts, USEC_PER_SEC)]

v4l2_get_pts(ts) ==
    IF ts.tv_sec = NOPTS_TV_SEC /\ ts.tv_usec = 0
    THEN AV_NOPTS_VALUE
    ELSE ts.tv_sec * USEC_PER_SEC + ts.tv_usec

(***************************************************************************)
(* State.                                                                  *)
(*   ctx      DeintV4L2M2MContextShared (scalar fields)                    *)
(*   output   ctx->output  : [num_buffers, buffers]                        *)
(*   capture  ctx->capture : [num_buffers, buffers]                        *)
(*   dev      the kernel side: queued buffers, streaming state, the        *)
(*            descriptors exported and closed, the calls received; the     *)
(*            driving thread's errno, and whether that thread is in a poll *)
(*            loop it does not leave (spin)                                *)
(*   held     per CAPTURE slot, the downstream frames wrapping it whose    *)
(*            release hook has not run yet                                 *)
(*   hist     history: frames emitted, successful submissions, whether any *)
(*            OUTPUT buffer was ever recycled, whether a release hook ran  *)
(*            after uninit set ctx->done                                   *)
(*   last     the last call that returns a result, and the result          *)
(*   pc       position of the filter instance in its life                  *)
(*   scen     the scenario of the run: which side of the device is driven  *)
(*            with variety (fixed at Init)                                 *)
(***************************************************************************)
VARIABLES ctx, output, capture, dev, held, hist, last, pc, scen, hook

vars == <<ctx, output, capture, dev, held, hist, last, pc, scen, hook>>

\* a V4L2Buffer as av_mallocz leaves it
ZeroBuffer ==
    [ enqueued |-> 0, fd |-> 0, num_planes |-> 0,
      objfd |-> [p \in 0 .. (MaxPlanes - 1) |-> 0],
      field |-> V4L2_FIELD_ANY,
      timestamp |-> [tv_sec |-> 0, tv_usec |-> 0],
      flags_error |-> 0,
      frame |-> NoFrame,
      q |-> "null" ]

\* the program state the functions below read and write
World == [ctx |-> ctx, output |-> output, capture |-> capture, dev |-> dev]

NumBuffers(w, qn) == w[qn].num_buffers
Allocated(w, qn) == w[qn].buffers # NULL

Min(S) == CHOOSE x \in S : \A y \in S : x <= y

\* F applied to the value of e: e is evaluated once, as a C statement's
\* result is, before the statements that follow read it
Bind(e, F(_)) == CHOOSE r \in { F(x) : x \in {e} } : TRUE

(***************************************************************************)
(* Queue driver.                                                           *)
(***************************************************************************)
\* dev.calls: the stream's milestones in the order the device saw them:
\* VIDIOC_S_FMT ("S_FMT"), the pool allocation ("ALLOC") and
\* VIDIOC_STREAMON ("STREAMON") of each queue, each with its outcome, and
\* the first VIDIOC_QBUF on the OUTPUT queue ("QBUF", recorded as issued,
\* whatever its answer)
Called(w, c, qn, ok) ==
    [w EXCEPT !.dev.calls = Append(@, [call |-> c, q |-> qn, ok |-> ok])]

FirstSubmit(w, qn) ==
    IF V4L2_TYPE_IS_OUTPUT(qn) /\ \A k \in DOMAIN w.dev.calls : w.dev.calls[k].call # "QBUF"
    THEN Called(w, "QBUF", qn, TRUE)
    ELSE w

\* VIDIOC_QBUF of slot i; ok is the device's answer
deint_v4l2m2m_enqueue_buffer(w, qn, i, ok) ==
    Bind(FirstSubmit(w, qn), LAMBDA w0 :
    IF ~ok
    THEN [ret |-> AVERROR_EIO, w |-> [w0 EXCEPT !.dev.errno = 0]]
    ELSE [ret |-> 0,
          w |-> [w0 EXCEPT ![qn].buffers[i].enqueued = 1,
                           !.dev.queued[qn] = @ \cup {i}]])

\* VIDIOC_EXPBUF of planes j.. of CAPTURE slot i; the first nok calls succeed
RECURSIVE ExportPlanes(_, _, _, _)
ExportPlanes(w, i, j, nok) ==
    IF j >= w.capture.buffers[i].num_planes
    THEN [ret |-> 0, w |-> w]
    ELSE IF j >= nok
    THEN [ret |-> AVERROR_EIO, w |-> w]
    ELSE LET fd == DevFd + 1 + Cardinality(w.dev.exported)
             o == IF w.ctx.mplane THEN j ELSE 0
         IN Bind([w EXCEPT !.capture.buffers[i].fd = fd,
                           !.capture.buffers[i].objfd[o] = fd,
                           !.dev.exported = @ \cup {fd}],
                 LAMBDA w1 : ExportPlanes(w1, i, j + 1, nok))

v4l2_buffer_export_drm(w, i, nok) == ExportPlanes(w, i, 0, nok)

\* close(fd)
Close(w, fd) == [w EXCEPT !.dev.closes[fd] = @ + 1]

RECURSIVE CloseBufferFds(_, _, _)
\* for (i = 0; i < num_buffers; i++) if (buffers[i].fd >= 0) close(buffers[i].fd)
CloseBufferFds(w, qn, i) ==
    IF i >= w[qn].num_buffers
    THEN w
    ELSE Bind(IF w[qn].buffers[i].fd >= 0
              THEN Close(w, w[qn].buffers[i].fd)
              ELSE w,
              LAMBDA w1 : CloseBufferFds(w1, qn, i + 1))

(***************************************************************************)
(* Buffer pool.  The device's answers to one allocate call:                *)
(*   reqbufs_ok, count   VIDIOC_REQBUFS and the count it grants            *)
(*   malloc_ok           av_mallocz of the slot array                      *)
(*   planes              buffer.length VIDIOC_QUERYBUF reports (mplane)    *)
(*   fail_slot, fail_stage, nok                                            *)
(*                       the slot and call that fails, if any: "querybuf", *)
(*                       "qbuf", or "expbuf" after nok planes exported     *)
(***************************************************************************)
AllocAnswers ==
    { [reqbufs_ok |-> FALSE, count |-> 1, malloc_ok |-> TRUE, planes |-> 1,
       fail_slot |-> NoBuf, fail_stage |-> "none", nok |-> 0] }
    \cup
    { [reqbufs_ok |-> TRUE, count |-> c, malloc_ok |-> FALSE, planes |-> 1,
       fail_slot |-> NoBuf, fail_stage |-> "none", nok |-> 0] : c \in 1 .. MaxGrant }
    \cup
    { [reqbufs_ok |-> TRUE, count |-> c, malloc_ok |-> TRUE, planes |-> p,
       fail_slot |-> NoBuf, fail_stage |-> "none", nok |-> 0] :
         c \in 1 .. MaxGrant, p \in 1 .. MaxPlanes }
    \cup
    { [reqbufs_ok |-> TRUE, count |-> c, malloc_ok |-> TRUE, planes |-> p,
       fail_slot |-> i, fail_stage |-> st, nok |-> 0] :
         c \in 1 .. MaxGrant, p \in 1 .. MaxPlanes, i \in 0 .. (MaxGrant - 1),
         st \in {"querybuf", "qbuf"} }
    \cup
    { [reqbufs_ok |-> TRUE, count |-> c, malloc_ok |-> TRUE, planes |-> p,
       fail_slot |-> i, fail_stage |-> "expbuf", nok |-> k] :
         c \in 1 .. MaxGrant, p \in 1 .. MaxPlanes, i \in 0 .. (MaxGrant - 1),
         k \in 0 .. (MaxPlanes - 1) }

\* a slot loop that leaves CAPTURE slots as it leaves OUTPUT slots: neither
\* queued nor exported
AllocSlot_NoPrearm(w, qn, i, a) ==
    IF a.fail_slot = i /\ a.fail_stage = "querybuf"
    THEN [ret |-> AVERROR_EIO,
          w |-> [w EXCEPT ![qn].buffers[i].enqueued = 0,
                          ![qn].buffers[i].fd = -1,
                          ![qn].buffers[i].q = qn]]
    ELSE [ret |-> 0,
          w |-> [w EXCEPT ![qn].buffers[i].enqueued = 0,
                          ![qn].buffers[i].fd = -1,
                          ![qn].buffers[i].q = qn,
                          ![qn].buffers[i].num_planes =
                              IF w.ctx.mplane THEN a.planes ELSE 1]]

\* one pass of the slot loop; returns ret # 0 for "goto fail"
AllocSlot(w, qn, i, a) ==
    LET fails(st) == a.fail_slot = i /\ a.fail_stage = st
        np == IF w.ctx.mplane THEN a.planes ELSE 1
    IN  Bind([w EXCEPT ![qn].buffers[i].enqueued = 0,
                       ![qn].buffers[i].fd = -1,
                       ![qn].buffers[i].q = qn],
             LAMBDA w1 :
        IF fails("querybuf")
        THEN [ret |-> AVERROR_EIO, w |-> w1]
        ELSE Bind([w1 EXCEPT ![qn].buffers[i].num_planes = np],
             LAMBDA w2 :
        IF V4L2_TYPE_IS_OUTPUT(qn)
        THEN [ret |-> 0, w |-> w2]
        ELSE Bind(deint_v4l2m2m_enqueue_buffer(w2, qn, i, ~fails("qbuf")),
             LAMBDA e :
        IF e.ret # 0
        THEN e
        ELSE v4l2_buffer_export_drm(e.w, i, IF fails("expbuf") THEN a.nok ELSE np))))

RECURSIVE AllocLoop(_, _, _, _)
AllocLoop(w, qn, i, a) ==
    IF i >= w[qn].num_buffers
    THEN [ret |-> 0, w |-> w]
    ELSE Bind(AllocSlot(w, qn, i, a),
              LAMBDA r : IF r.ret # 0 THEN r ELSE AllocLoop(r.w, qn, i + 1, a))

deint_v4l2m2m_allocate_buffers(w, qn, a) ==
    Bind(IF ~a.reqbufs_ok
         THEN [ret |-> AVERROR_EIO, w |-> w]
         ELSE Bind([w EXCEPT ![qn].num_buffers = a.count],
                   LAMBDA w1 :
              IF ~a.malloc_ok
              THEN [ret |-> AVERROR_ENOMEM, w |-> [w1 EXCEPT ![qn].buffers = NULL]]
              ELSE Bind([w1 EXCEPT ![qn].buffers = [i \in 0 .. (a.count - 1) |-> ZeroBuffer]],
                   LAMBDA w2 :
                   Bind(AllocLoop(w2, qn, 0, a),
                   LAMBDA r :
              IF r.ret = 0
              THEN r
              ELSE \* fail:
                   [ret |-> r.ret,
                    w |-> [CloseBufferFds(r.w, qn, 0) EXCEPT ![qn].buffers = NULL]]))),
         LAMBDA r : [ret |-> r.ret, w |-> Called(r.w, "ALLOC", qn, r.ret = 0)])

deint_v4l2m2m_streamon(w, qn, ok) ==
    Bind(Called(w, "STREAMON", qn, ok), LAMBDA w0 :
    IF ok
    THEN [ret |-> 0, w |-> [w0 EXCEPT !.dev.streaming[qn] = TRUE]]
    ELSE [ret |-> AVERROR_EIO, w |-> w0])

\* VIDIOC_STREAMOFF; the caller ignores the result
deint_v4l2m2m_streamoff(w, qn) ==
    [w EXCEPT !.dev.streaming[qn] = FALSE, !.dev.streamoff[qn] = @ + 1]

(***************************************************************************)
(* deint_v4l2m2m_dequeue_buffer.  resp is what poll and VIDIOC_DQBUF       *)
(* answer:                                                                 *)
(*   intr             the polls a signal interrupts (ret < 0, errno set to *)
(*                    EINTR) before the first poll that is not interrupted *)
(*   kind             the outcome of that first uninterrupted poll:        *)
(*        "timeout"   poll returned 0 (errno is left as it was)            *)
(*        "pollfail"  poll returned < 0 with errno # EINTR                 *)
(*        "pollerr"   revents has POLLERR                                  *)
(*        "noevent"   revents has none of the awaited events               *)
(*        "dqbuf_err" VIDIOC_DQBUF failed (EAGAIN or other)                *)
(*        "buf"       VIDIOC_DQBUF returned buffer resp.index with         *)
(*                    resp.timestamp, resp.flags_error and resp.field      *)
(*   later            what the polls after a timed-out one report, should  *)
(*                    the loop poll again: "never" an event, or "buf", the *)
(*                    buffer resp.index                                    *)
(***************************************************************************)
NoResp == [intr |-> 0, kind |-> "timeout", later |-> "never", index |-> NoBuf,
           timestamp |-> [tv_sec |-> 0, tv_usec |-> 0], flags_error |-> 0,
           field |-> V4L2_FIELD_ANY]

\* errno when the first uninterrupted poll returns
ErrnoAfterIntr(w, resp) == IF resp.intr > 0 THEN EINTR ELSE w.dev.errno

\* avbuf->enqueued = 0; avbuf->buffer = buf
TakeBuffer(w, qn, resp) ==
    [w EXCEPT ![qn].buffers[resp.index].enqueued = 0,
              ![qn].buffers[resp.index].timestamp = resp.timestamp,
              ![qn].buffers[resp.index].flags_error = resp.flags_error,
              ![qn].buffers[resp.index].field = resp.field,
              !.dev.queued[qn] = @ \ {resp.index}]

\* a dequeue that hands the buffer out and leaves it marked enqueued and
\* queued
dequeue_buffer_KeepsQueued(w, qn, resp) ==
    IF resp.kind # "buf"
    THEN [avbuf |-> NoBuf, w |-> w]
    ELSE [avbuf |-> resp.index,
          w |-> [w EXCEPT ![qn].buffers[resp.index].timestamp = resp.timestamp,
                          ![qn].buffers[resp.index].flags_error = resp.flags_error,
                          ![qn].buffers[resp.index].field = resp.field]]

deint_v4l2m2m_dequeue_buffer(w, qn, resp) ==
    Bind([w EXCEPT !.dev.errno = ErrnoAfterIntr(w, resp)],
         LAMBDA w1 :
    IF resp.kind = "timeout"
    THEN IF w1.dev.errno # EINTR
         THEN [avbuf |-> NoBuf, w |-> w1]
         ELSE \* if (errno == EINTR) continue;
              IF resp.later = "buf"
              THEN [avbuf |-> resp.index, w |-> TakeBuffer(w1, qn, resp)]
              ELSE [avbuf |-> NoBuf, w |-> [w1 EXCEPT !.dev.spin = TRUE]]
    ELSE IF resp.kind \in {"pollfail", "dqbuf_err"}
    THEN [avbuf |-> NoBuf, w |-> [w1 EXCEPT !.dev.errno = 0]]
    ELSE IF resp.kind \in {"pollerr", "noevent"}
    THEN [avbuf |-> NoBuf, w |-> w1]
    ELSE [avbuf |-> resp.index, w |-> TakeBuffer(w1, qn, resp)])

\* a search that starts at the second slot
find_free_buf_FromSecond(w, qn) ==
    LET free == {i \in 1 .. (w[qn].num_buffers - 1) : w[qn].buffers[i].enqueued = 0}
    IN  IF free = {} THEN NoBuf ELSE Min(free)

deint_v4l2m2m_find_free_buf(w, qn) ==
    LET free == {i \in 0 .. (w[qn].num_buffers - 1) : w[qn].buffers[i].enqueued = 0}
    IN  IF free = {} THEN NoBuf ELSE Min(free)

count_enqueued(w, qn) ==
    Cardinality({i \in 0 .. (w[qn].num_buffers - 1) : w[qn].buffers[i].enqueued # 0})

deint_v4l2m2m_unref_queued(w, qn) ==
    IF w[qn].buffers = NULL
    THEN w
    ELSE [w EXCEPT ![qn].buffers =
            [i \in DOMAIN @ |-> IF @[i].enqueued # 0
                                THEN [@[i] EXCEPT !.frame = NoFrame]
                                ELSE @[i]]]

\* an OUTPUT buffer comes back from the device as it was queued
EchoResp(w, qn, i) ==
    [intr |-> 0, kind |-> "buf", later |-> "never", index |-> i,
     timestamp |-> w[qn].buffers[i].timestamp,
     flags_error |-> 0,
     field |-> w[qn].buffers[i].field]

RECURSIVE recycle_q(_, _, _)
\* R: the buffers the device hands back; after them it has none, and the
\* poll times out
recycle_q(w, qn, R) ==
    IF R = {}
    THEN deint_v4l2m2m_dequeue_buffer(w, qn, NoResp).w
    ELSE Bind(deint_v4l2m2m_dequeue_buffer(w, qn, EchoResp(w, qn, Min(R))),
              LAMBDA d :
              Bind([d.w EXCEPT ![qn].buffers[d.avbuf].frame = NoFrame],
              LAMBDA w1 : recycle_q(w1, qn, R \ {d.avbuf})))

(***************************************************************************)
(* Frame adapter.                                                          *)
(***************************************************************************)
FieldOfFrame(frame, old) ==
    IF frame.interlaced_frame # 0
    THEN IF frame.top_field_first # 0
         THEN V4L2_FIELD_INTERLACED_TB
         ELSE V4L2_FIELD_INTERLACED_BT
    ELSE old

\* an enqueue_frame that returns 0 whatever VIDIOC_QBUF answered
enqueue_frame_IgnoresQbuf(w, qn, frame, R, ok) ==
    Bind(IF V4L2_TYPE_IS_OUTPUT(qn) THEN recycle_q(w, qn, R) ELSE w,
         LAMBDA w1 :
    IF w1.dev.spin
    THEN [ret |-> NORETURN, buf |-> NoBuf, w |-> w1]
    ELSE Bind(deint_v4l2m2m_find_free_buf(w1, qn),
         LAMBDA buf :
    IF buf = NoBuf
    THEN [ret |-> AVERROR_EAGAIN, buf |-> NoBuf, w |-> w1]
    ELSE Bind([w1 EXCEPT
                 ![qn].buffers[buf].field = FieldOfFrame(frame, @),
                 ![qn].buffers[buf].timestamp = v4l2_set_pts(frame.pts),
                 ![qn].buffers[buf].objfd[0] = frame.drm_fd,
                 ![qn].buffers[buf].frame = frame],
         LAMBDA w2 :
         Bind(deint_v4l2m2m_enqueue_buffer(w2, qn, buf, ok),
         LAMBDA e : [ret |-> 0, buf |-> buf, w |-> e.w]))))

\* R: buffers recycled first; ok: the device's answer to VIDIOC_QBUF
deint_v4l2m2m_enqueue_frame(w, qn, frame, R, ok) ==
    Bind(IF V4L2_TYPE_IS_OUTPUT(qn) THEN recycle_q(w, qn, R) ELSE w,
         LAMBDA w1 :
    IF w1.dev.spin
    THEN [ret |-> NORETURN, buf |-> NoBuf, w |-> w1]
    ELSE Bind(deint_v4l2m2m_find_free_buf(w1, qn),
         LAMBDA buf :
    IF buf = NoBuf
    THEN [ret |-> AVERROR_EAGAIN, buf |-> NoBuf, w |-> w1]
    ELSE Bind([w1 EXCEPT
                 ![qn].buffers[buf].field = FieldOfFrame(frame, @),
                 ![qn].buffers[buf].timestamp = v4l2_set_pts(frame.pts),
                 ![qn].buffers[buf].objfd[0] = frame.drm_fd,
                 ![qn].buffers[buf].frame = frame],
         LAMBDA w2 :
         Bind(deint_v4l2m2m_enqueue_buffer(w2, qn, buf, ok),
         LAMBDA e : [ret |-> e.ret, buf |-> buf, w |-> e.w]))))

(***************************************************************************)
(* Shared context lifecycle.                                               *)
(***************************************************************************)
RECURSIVE DestroyCaptureBuffers(_, _)
\* capture->buffers[i].q = NULL; if (fd >= 0) close(fd)
DestroyCaptureBuffers(w, i) ==
    IF i >= w.capture.num_buffers
    THEN w
    ELSE Bind([w EXCEPT !.capture.buffers[i].q = "null"],
              LAMBDA w1 :
              Bind(IF w1.capture.buffers[i].fd >= 0
                   THEN Close(w1, w1.capture.buffers[i].fd)
                   ELSE w1,
              LAMBDA w2 : DestroyCaptureBuffers(w2, i + 1)))

\* the body run by the decrement that takes refcount from 1 to 0
Teardown(w) ==
    Bind(IF w.ctx.fd >= 0
         THEN deint_v4l2m2m_streamoff(deint_v4l2m2m_streamoff(w, "capture"), "output")
         ELSE w,
         LAMBDA w1 :
         Bind(IF w1.capture.buffers # NULL THEN DestroyCaptureBuffers(w1, 0) ELSE w1,
         LAMBDA w2 :
         Bind(deint_v4l2m2m_unref_queued(w2, "output"),
         LAMBDA w3 :
         Bind(IF w3.ctx.fd >= 0
              THEN [Close(w3, w3.ctx.fd) EXCEPT !.ctx.fd = -1]
              ELSE w3,
         LAMBDA w4 : [w4 EXCEPT !.dev.ctx_freed = @ + 1]))))

\* a destroy_context that tears down whenever the instance's own reference
\* is gone, whatever the frames still hold
destroy_context_IgnoresFrames(w) ==
    Bind([w EXCEPT !.ctx.refcount = @ - 1],
         LAMBDA w1 : IF w1.ctx.done # 0 THEN Teardown(w1) ELSE w1)

deint_v4l2m2m_destroy_context(w) ==
    Bind([w EXCEPT !.ctx.refcount = @ - 1],
         LAMBDA w1 : IF w.ctx.refcount = 1 THEN Teardown(w1) ELSE w1)

\* a release hook without the ctx->done test
v4l2_free_buffer_AlwaysRequeues(w, i, ok) ==
    Bind(deint_v4l2m2m_enqueue_buffer(w, "capture", i, ok).w,
         LAMBDA w1 : deint_v4l2m2m_destroy_context(w1))

\* a release hook that closes the slot's descriptor itself once ctx->done
\* is set
v4l2_free_buffer_ClosesOnDrain(w, i, ok) ==
    Bind(IF w.ctx.done = 0
         THEN deint_v4l2m2m_enqueue_buffer(w, "capture", i, ok).w
         ELSE Close(w, w.capture.buffers[i].fd),
         LAMBDA w1 : deint_v4l2m2m_destroy_context(w1))

\* the release hook of an emitted frame wrapping CAPTURE slot i
v4l2_free_buffer(w, i, ok) ==
    Bind(IF w.ctx.done = 0
         THEN deint_v4l2m2m_enqueue_buffer(w, "capture", i, ok).w
         ELSE w,
         LAMBDA w1 : deint_v4l2m2m_destroy_context(w1))

\* an uninit that stops both streams when it sets ctx->done
uninit_StopsStreams(w) ==
    Bind([deint_v4l2m2m_streamoff(deint_v4l2m2m_streamoff(w, "capture"), "output")
            EXCEPT !.ctx.done = 1],
         LAMBDA w1 : deint_v4l2m2m_destroy_context(w1))

deint_v4l2m2m_uninit(w) ==
    Bind([w EXCEPT !.ctx.done = 1],
         LAMBDA w1 : deint_v4l2m2m_destroy_context(w1))

\* a dequeue_frame that synthesises a pts only when the device gave none
dequeue_frame_SynthOnlyMissing(w, resp, alloc_ok) ==
    Bind(deint_v4l2m2m_dequeue_buffer(w, "capture", resp),
         LAMBDA d :
        IF d.w.dev.spin
        THEN [ret |-> NORETURN, avbuf |-> NoBuf, pts |-> AV_NOPTS_VALUE,
              decode_error |-> 0, w |-> d.w]
        ELSE IF d.avbuf = NoBuf
        THEN [ret |-> AVERROR_EAGAIN, avbuf |-> NoBuf, pts |-> AV_NOPTS_VALUE,
              decode_error |-> 0, w |-> d.w]
        ELSE IF ~alloc_ok
        THEN [ret |-> AVERROR_ENOMEM, avbuf |-> d.avbuf, pts |-> AV_NOPTS_VALUE,
              decode_error |-> 0, w |-> d.w]
        ELSE LET raw == v4l2_get_pts(d.w.capture.buffers[d.avbuf].timestamp)
                 pts == IF raw = AV_NOPTS_VALUE
                        THEN d.w.ctx.last_pts + d.w.ctx.frame_interval
                        ELSE raw
             IN  [ret |-> 0, avbuf |-> d.avbuf, pts |-> pts,
                  decode_error |-> d.w.capture.buffers[d.avbuf].flags_error,
                  w |-> [d.w EXCEPT !.ctx.refcount = @ + 1,
                                    !.ctx.last_pts = pts,
                                    !.capture.buffers[d.avbuf].timestamp = v4l2_set_pts(pts)]])

\* a dequeue_frame that refuses a buffer the driver flagged as erroneous
dequeue_frame_DropsErrors(w, resp, alloc_ok) ==
    Bind(deint_v4l2m2m_dequeue_buffer(w, "capture", resp),
         LAMBDA d :
        IF d.w.dev.spin
        THEN [ret |-> NORETURN, avbuf |-> NoBuf, pts |-> AV_NOPTS_VALUE,
              decode_error |-> 0, w |-> d.w]
        ELSE IF d.avbuf = NoBuf
        THEN [ret |-> AVERROR_EAGAIN, avbuf |-> NoBuf, pts |-> AV_NOPTS_VALUE,
              decode_error |-> 0, w |-> d.w]
        ELSE IF ~alloc_ok
        THEN [ret |-> AVERROR_ENOMEM, avbuf |-> d.avbuf, pts |-> AV_NOPTS_VALUE,
              decode_error |-> 0, w |-> d.w]
        ELSE IF d.w.capture.buffers[d.avbuf].flags_error = 1
        THEN [ret |-> AVERROR_EIO, avbuf |-> d.avbuf, pts |-> AV_NOPTS_VALUE,
              decode_error |-> 1, w |-> d.w]
        ELSE LET raw == v4l2_get_pts(d.w.capture.buffers[d.avbuf].timestamp)
                 pts == IF raw = AV_NOPTS_VALUE \/ raw = d.w.ctx.last_pts
                        THEN d.w.ctx.last_pts + d.w.ctx.frame_interval
                        ELSE raw
             IN  [ret |-> 0, avbuf |-> d.avbuf, pts |-> pts, decode_error |-> 0,
                  w |-> [d.w EXCEPT !.ctx.refcount = @ + 1,
                                    !.ctx.last_pts = pts,
                                    !.capture.buffers[d.avbuf].timestamp = v4l2_set_pts(pts)]])

\* resp: the device's answer to the dequeue; alloc_ok: av_buffer_create;
\* decode_error: FF_DECODE_ERROR_INVALID_BITSTREAM set on the frame
deint_v4l2m2m_dequeue_frame(w, resp, alloc_ok) ==
    Bind(deint_v4l2m2m_dequeue_buffer(w, "capture", resp),
         LAMBDA d :
        IF d.w.dev.spin
        THEN [ret |-> NORETURN, avbuf |-> NoBuf, pts |-> AV_NOPTS_VALUE,
              decode_error |-> 0, w |-> d.w]
        ELSE IF d.avbuf = NoBuf
        THEN [ret |-> AVERROR_EAGAIN, avbuf |-> NoBuf, pts |-> AV_NOPTS_VALUE,
              decode_error |-> 0, w |-> d.w]
        ELSE IF ~alloc_ok
        THEN [ret |-> AVERROR_ENOMEM, avbuf |-> d.avbuf, pts |-> AV_NOPTS_VALUE,
              decode_error |-> 0, w |-> d.w]
        ELSE LET raw == v4l2_get_pts(d.w.capture.buffers[d.avbuf].timestamp)
                 pts == IF raw = AV_NOPTS_VALUE \/ raw = d.w.ctx.last_pts
                        THEN d.w.ctx.last_pts + d.w.ctx.frame_interval
                        ELSE raw
             IN  [ret |-> 0, avbuf |-> d.avbuf, pts |-> pts,
                  decode_error |-> d.w.capture.buffers[d.avbuf].flags_error,
                  w |-> [d.w EXCEPT !.ctx.refcount = @ + 1,
                                    !.ctx.last_pts = pts,
                                    !.capture.buffers[d.avbuf].timestamp = v4l2_set_pts(pts)]])

(***************************************************************************)
(* Format negotiator.  a: the device's answers to VIDIOC_S_FMT,            *)
(* VIDIOC_G_SELECTION and VIDIOC_S_SELECTION.  Only the last ioctl's       *)
(* result is returned.                                                     *)
(***************************************************************************)
FmtOk == [sfmt_ok |-> TRUE, gsel_ok |-> TRUE, ssel_ok |-> TRUE]

FmtAnswers ==
    { FmtOk,
      [FmtOk EXCEPT !.sfmt_ok = FALSE],
      [FmtOk EXCEPT !.gsel_ok = FALSE],
      [FmtOk EXCEPT !.ssel_ok = FALSE] }

deint_v4l2m2m_set_format(w, qn, a) ==
    [ret |-> IF a.ssel_ok THEN 0 ELSE -1, w |-> Called(w, "S_FMT", qn, a.sfmt_ok)]

(***************************************************************************)
(* The device's answers over the first frame's stream setup.  A script     *)
(* holds at most one failing call.                                         *)
(***************************************************************************)
AllocOk(c, p) ==
    [reqbufs_ok |-> TRUE, count |-> c, malloc_ok |-> TRUE, planes |-> p,
     fail_slot |-> NoBuf, fail_stage |-> "none", nok |-> 0]

AllocFails == {a \in AllocAnswers : a # AllocOk(a.count, a.planes)}

OkScripts ==
    { [fmt_out |-> FmtOk, fmt_cap |-> FmtOk, alloc_cap |-> AllocOk(cc, p),
       son_cap |-> TRUE, alloc_out |-> AllocOk(oc, 1), son_out |-> TRUE] :
         cc \in 1 .. MaxGrant, p \in 1 .. MaxPlanes, oc \in 1 .. MaxGrant }

SetupScripts ==
    OkScripts
    \cup { [s EXCEPT !.fmt_out = f] : s \in OkScripts, f \in FmtAnswers }
    \cup { [s EXCEPT !.fmt_cap = f] : s \in OkScripts, f \in FmtAnswers }
    \cup { [s EXCEPT !.alloc_cap = a] : s \in OkScripts, a \in AllocFails }
    \cup { [s EXCEPT !.son_cap = FALSE] : s \in OkScripts }
    \cup { [s EXCEPT !.alloc_out = a] : s \in OkScripts, a \in AllocFails }
    \cup { [s EXCEPT !.son_out = FALSE] : s \in OkScripts }

\* the body of "if (ctx->field_order == V4L2_FIELD_ANY)" in filter_frame
StreamSetup(w, in, s) ==
    Bind([w EXCEPT !.ctx.field_order =
            IF in.top_field_first # 0
            THEN V4L2_FIELD_INTERLACED_TB
            ELSE V4L2_FIELD_INTERLACED_BT],
         LAMBDA w0 :
    Bind(deint_v4l2m2m_set_format(w0, "output", s.fmt_out),
         LAMBDA r1 : IF r1.ret # 0 THEN r1 ELSE
    Bind(deint_v4l2m2m_set_format(r1.w, "capture", s.fmt_cap),
         LAMBDA r2 : IF r2.ret # 0 THEN r2 ELSE
    Bind(deint_v4l2m2m_allocate_buffers(r2.w, "capture", s.alloc_cap),
         LAMBDA r3 : IF r3.ret # 0 THEN r3 ELSE
    Bind(deint_v4l2m2m_streamon(r3.w, "capture", s.son_cap),
         LAMBDA r4 : IF r4.ret # 0 THEN r4 ELSE
    Bind(deint_v4l2m2m_allocate_buffers(r4.w, "output", s.alloc_out),
         LAMBDA r5 : IF r5.ret # 0 THEN r5 ELSE
         deint_v4l2m2m_streamon(r5.w, "output", s.son_out)))))))

\* a filter_frame that sets the stream up again when a frame's field order
\* differs from the one in force
filter_frame_SetupOnOrderChange(w, in, s, R, ok) ==
    Bind(IF w.ctx.field_order # (IF in.top_field_first # 0
                                 THEN V4L2_FIELD_INTERLACED_TB
                                 ELSE V4L2_FIELD_INTERLACED_BT)
         THEN StreamSetup(w, in, s)
         ELSE [ret |-> 0, w |-> w],
         LAMBDA st :
    IF st.ret # 0
    THEN [ret |-> st.ret, buf |-> NoBuf, submitted |-> FALSE, w |-> st.w]
    ELSE Bind(deint_v4l2m2m_enqueue_frame(st.w, "output", in, R, ok),
         LAMBDA e : [ret |-> e.ret, buf |-> e.buf, submitted |-> TRUE, w |-> e.w]))

\* s: the setup script (used on the first frame only); R, ok: see enqueue_frame
deint_v4l2m2m_filter_frame(w, in, s, R, ok) ==
    Bind(IF w.ctx.field_order = V4L2_FIELD_ANY
         THEN StreamSetup(w, in, s)
         ELSE [ret |-> 0, w |-> w],
         LAMBDA st :
    IF st.ret # 0
    THEN [ret |-> st.ret, buf |-> NoBuf, submitted |-> FALSE, w |-> st.w]
    ELSE Bind(deint_v4l2m2m_enqueue_frame(st.w, "output", in, R, ok),
         LAMBDA e : [ret |-> e.ret, buf |-> e.buf, submitted |-> TRUE, w |-> e.w]))

\* R: OUTPUT buffers recycled; resp, alloc_ok: see dequeue_frame
deint_v4l2m2m_request_frame(w, eof, R, resp, alloc_ok) ==
    IF eof
    THEN [ret |-> 0, avbuf |-> NoBuf, pts |-> AV_NOPTS_VALUE, decode_error |-> 0, w |-> w]
    ELSE Bind(recycle_q(w, "output", R),
              LAMBDA w1 :
              IF w1.dev.spin
              THEN [ret |-> NORETURN, avbuf |-> NoBuf, pts |-> AV_NOPTS_VALUE,
                    decode_error |-> 0, w |-> w1]
              ELSE deint_v4l2m2m_dequeue_frame(w1, resp, alloc_ok))

(***************************************************************************)
(* Scenarios.  A run drives one side of the device with variety and the    *)
(* other with the least that keeps it working:                             *)
(*   "capture"  single-planar CAPTURE pools of every size, frames emitted  *)
(*              and released in every order                                *)
(*   "planes"   multi-planar CAPTURE pools of every size and plane count   *)
(*   "output"   OUTPUT pools of every size, every input frame              *)
(*   "frames"   every device timestamp and error flag on one CAPTURE slot  *)
(*   "signals"  polls interrupted by signals, on one slot per queue        *)
(*   "formats"  VIDIOC_S_FMT or VIDIOC_G_SELECTION rejected on either      *)
(*              queue, on one slot per queue                               *)
(***************************************************************************)
Scenarios == {"capture", "planes", "output", "frames", "signals", "formats"}

OneFrame == CHOOSE f \in InFrames : f.interlaced_frame = 1 /\ f.top_field_first = 0
NoTimestamp == [tv_sec |-> NOPTS_TV_SEC, tv_usec |-> 0]

ScenFrames(sc) == IF sc = "output" THEN InFrames \ {OneFrame} ELSE {OneFrame}
ScenTimestamps(sc) == IF sc = "frames" THEN DevTimestamps ELSE {NoTimestamp}
ScenErrFlags(sc) == IF sc = "frames" THEN {0, 1} ELSE {0}
ScenMplane(sc) == IF sc = "planes" THEN {TRUE} ELSE {FALSE}
ScenIntr(sc) == IF sc = "signals" THEN 0 .. MaxIntr ELSE {0}
ScenMaxEmit(sc) ==
    IF sc = "output" THEN 0
    ELSE IF sc \in {"planes", "signals", "formats"} THEN 1
    ELSE MaxEmit
ScenMaxSubmit(sc) ==
    IF sc = "output" THEN MaxSubmit ELSE IF sc = "signals" THEN 2 ELSE 1
ScenScripts(sc) ==
    { s \in SetupScripts :
        /\ sc \notin {"capture", "planes"} => s.alloc_cap.count = 1
        /\ sc # "planes" => s.alloc_cap.planes = 1
        /\ sc # "output" => s.alloc_out.count = 1
        /\ sc # "formats" => \A f \in {s.fmt_out, s.fmt_cap} : f.sfmt_ok /\ f.gsel_ok }

(***************************************************************************)
(* Initial state: after deint_v4l2m2m_init.                                *)
(***************************************************************************)
Init ==
    /\ ctx = [fd |-> -1, done |-> 0, refcount |-> 1,
              field_order |-> V4L2_FIELD_ANY, last_pts |-> 0,
              frame_interval |-> FRAME_INTERVAL, mplane |-> FALSE]
    /\ output = [num_buffers |-> OUTPUT_NUM_BUFFERS, buffers |-> NULL]
    /\ capture = [num_buffers |-> CAPTURE_NUM_BUFFERS, buffers |-> NULL]
    /\ dev = [queued |-> [output |-> {}, capture |-> {}],
              streaming |-> [output |-> FALSE, capture |-> FALSE],
              streamoff |-> [output |-> 0, capture |-> 0],
              exported |-> {},
              closes |-> [fd \in Fds |-> 0],
              ctx_freed |-> 0,
              errno |-> 0,
              spin |-> FALSE,
              calls |-> <<>>]
    /\ held = [i \in 0 .. (MaxGrant - 1) |-> 0]
    /\ hist = [nemit |-> 0, submit_ok |-> 0, recycled |-> FALSE, late |-> FALSE]
    /\ last = [op |-> "init", ret |-> 0]
    /\ pc = "init"
    /\ scen \in Scenarios
    /\ hook = [i \in 0 .. (MaxGrant - 1) |-> "idle"]

Commit(w) ==
    /\ ctx' = w.ctx
    /\ output' = w.output
    /\ capture' = w.capture
    /\ dev' = w.dev

(***************************************************************************)
(* Actions.                                                                *)
(***************************************************************************)
\* deint_v4l2m2m_config_props: the device node is found and opened, or not
ConfigProps ==
    /\ pc = "init"
    /\ \E ok \in BOOLEAN, mp \in ScenMplane(scen) :
         IF ok
         THEN /\ ctx' = [ctx EXCEPT !.fd = DevFd, !.mplane = mp]
              /\ pc' = "configured"
              /\ last' = [op |-> "config_props", ret |-> 0]
         ELSE /\ ctx' = [ctx EXCEPT !.fd = -1]
              /\ pc' = "config_failed"
              /\ last' = [op |-> "config_props", ret |-> AVERROR_EIO]
    /\ UNCHANGED <<output, capture, dev, held, hist, scen, hook>>

\* deint_v4l2m2m_filter_frame on an input frame
FilterFrame ==
    /\ pc = "configured"
    /\ hist.submit_ok < ScenMaxSubmit(scen)
    /\ ctx.field_order = V4L2_FIELD_ANY \/ output.buffers # NULL
    /\ \E in \in ScenFrames(scen), R \in SUBSET dev.queued.output, ok \in BOOLEAN,
          s \in IF ctx.field_order = V4L2_FIELD_ANY
                THEN ScenScripts(scen)
                ELSE {CHOOSE x \in OkScripts : TRUE} :
         \E r \in {deint_v4l2m2m_filter_frame(World, in, s, R, ok)} :
             /\ Commit(r.w)
             /\ hist' = [hist EXCEPT
                           !.submit_ok = IF r.submitted /\ r.ret = 0 THEN @ + 1 ELSE @,
                           !.recycled = @ \/ (r.submitted /\ R # {})]
             /\ last' = [op |-> "filter_frame", ret |-> r.ret, frame |-> in]
             /\ pc' = IF r.w.dev.spin THEN "spinning" ELSE pc
    /\ UNCHANGED <<held, scen, hook>>

\* filter_frame after a failed stream setup: find_free_buf reads
\* queue->buffers[i] through a NULL pointer
FilterFrameUB ==
    /\ pc = "configured"
    /\ ctx.field_order # V4L2_FIELD_ANY
    /\ output.buffers = NULL
    /\ pc' = "crashed"
    /\ last' = [op |-> "filter_frame", ret |-> "SIGSEGV"]
    /\ UNCHANGED <<ctx, output, capture, dev, held, hist, scen, hook>>

\* deint_v4l2m2m_request_frame
RequestFrame ==
    /\ pc = "configured"
    /\ output.buffers # NULL
    /\ \E eof \in BOOLEAN, R \in SUBSET dev.queued.output, alloc_ok \in BOOLEAN,
          resp \in { [NoResp EXCEPT !.kind = k, !.intr = n] :
                       k \in {"timeout", "pollfail", "pollerr", "noevent", "dqbuf_err"},
                       n \in ScenIntr(scen) }
                   \cup
                   { [intr |-> n, kind |-> k, later |-> "buf", index |-> i,
                      timestamp |-> ts, flags_error |-> fe, field |-> V4L2_FIELD_NONE] :
                       n \in ScenIntr(scen), k \in {"timeout", "buf"},
                       i \in dev.queued.capture, ts \in ScenTimestamps(scen),
                       fe \in ScenErrFlags(scen) } :
         /\ eof => (R = {} /\ resp = NoResp)
         /\ (resp.kind = "timeout" /\ resp.later = "buf") =>
                ErrnoAfterIntr(World, resp) = EINTR
         /\ \E r \in {deint_v4l2m2m_request_frame(World, eof, R, resp, alloc_ok)} :
            LET emitted == ~eof /\ r.ret = 0
            IN  /\ emitted => hist.nemit < ScenMaxEmit(scen)
                /\ r.avbuf = NoBuf => alloc_ok
                /\ Commit(r.w)
                /\ held' = IF emitted THEN [held EXCEPT ![r.avbuf] = @ + 1] ELSE held
                /\ hist' = [hist EXCEPT
                              !.recycled = @ \/ R # {},
                              !.nemit = IF emitted THEN @ + 1 ELSE @]
                /\ last' = [op |-> "request_frame", ret |-> r.ret,
                            decode_error |-> r.decode_error]
                /\ pc' = IF r.w.dev.spin THEN "spinning" ELSE pc
    /\ UNCHANGED <<scen, hook>>

\* request_frame before both pools are allocated: count_enqueued reads
\* queue->buffers[i] through a NULL pointer
RequestFrameUB ==
    /\ pc = "configured"
    /\ output.buffers = NULL
    /\ pc' = "crashed"
    /\ last' = [op |-> "request_frame", ret |-> "SIGSEGV"]
    /\ UNCHANGED <<ctx, output, capture, dev, held, hist, scen, hook>>

\* downstream releases a frame it holds: v4l2_free_buffer(slot i), on the
\* releasing thread, whose errno is its own
Release ==
    /\ pc # "crashed"
    /\ \E i \in DOMAIN held, ok \in BOOLEAN :
         /\ held[i] > 0
         /\ ctx.done # 0 => ok
         /\ \E w \in {v4l2_free_buffer(World, i, ok)} :
                Commit([w EXCEPT !.dev.errno = dev.errno])
         /\ held' = [held EXCEPT ![i] = @ - 1]
    /\ hist' = [hist EXCEPT !.late = @ \/ ctx.done # 0]
    /\ UNCHANGED <<last, pc, scen, hook>>

\* deint_v4l2m2m_uninit: the pipeline tears the filter instance down
Uninit ==
    /\ pc \in {"init", "configured", "config_failed"}
    /\ \E w \in {deint_v4l2m2m_uninit(World)} : Commit(w)
    /\ pc' = "uninit"
    /\ UNCHANGED <<held, hist, last, scen, hook>>

Next ==
    \/ ConfigProps
    \/ FilterFrame
    \/ FilterFrameUB
    \/ RequestFrame
    \/ RequestFrameUB
    \/ Release
    \/ Uninit

Spec == Init /\ [][Next]_vars

(***************************************************************************)
(* Vocabulary of the properties.                                           *)
(***************************************************************************)
RECURSIVE SumHeld(_)
SumHeld(n) == IF n < 0 THEN 0 ELSE held[n] + SumHeld(n - 1)
\* emitted frames whose release hook has not run
Outstanding == SumHeld(MaxGrant - 1)
\* references issued and not yet released: the filter instance's own
\* (dropped by uninit) and one per outstanding frame
References == (IF pc = "uninit" THEN 0 ELSE 1) + Outstanding
\* the shared context's lifecycle states
Draining == ctx.done # 0 /\ ctx.refcount > 0
Destroyed == dev.ctx_freed > 0
\* the step is the release hook of a frame wrapping CAPTURE slot i
ReleaseOf(i) == held'[i] = held[i] - 1
\* the step is a request_frame that emitted a frame
Emits == hist'.nemit = hist.nemit + 1

(***************************************************************************)
(* C1.  Whatever the number of emitted frames and the order of the         *)
(* releases (uninit's and the frames' hooks, before or after uninit), the  *)
(* reference count equals the references issued and not yet released; the  *)
(* teardown (stream-off, descriptor closes, context free) runs exactly     *)
(* once, in the step that takes the count from 1 to 0; the device          *)
(* descriptor is never closed while a reference is outstanding.            *)
(***************************************************************************)
C1_Counted ==
    /\ ctx.refcount = References
    /\ dev.ctx_freed <= 1
    /\ dev.ctx_freed = 1 <=> ctx.refcount = 0
    /\ dev.closes[DevFd] <= 1
    /\ References > 0 =>
          /\ dev.closes[DevFd] = 0
          /\ dev.streamoff.capture = 0 /\ dev.streamoff.output = 0
    /\ dev.streamoff.capture = dev.closes[DevFd]
    /\ dev.streamoff.output = dev.closes[DevFd]
    /\ ctx.refcount = 0 =>
          /\ ctx.fd = -1
          /\ ~dev.streaming.capture /\ ~dev.streaming.output
          /\ hist.nemit > 0 => dev.closes[DevFd] = 1

C1_TeardownOnce ==
    [][ /\ C1_Counted'
        /\ dev'.ctx_freed # dev.ctx_freed =>
              /\ ctx.refcount = 1 /\ ctx'.refcount = 0
              /\ References = 1 /\ References' = 0
        /\ dev'.ctx_freed = dev.ctx_freed =>
              /\ dev'.closes[DevFd] = dev.closes[DevFd]
              /\ dev'.streamoff = dev.streamoff ]_vars

\* the context destroyed by a frame's release hook that ran after uninit,
\* every emitted frame of the run having been released
C1_Witness ==
    /\ Destroyed
    /\ hist.late
    /\ hist.nemit = MaxEmit
    /\ Outstanding = 0
    /\ dev.closes[DevFd] = 1
(***************************************************************************)
(* C2.  Every frame emitted after the first carries a presentation         *)
(* timestamp strictly greater than the one emitted before it, whatever     *)
(* timestamps the device reports (ctx->last_pts is the last emitted one).  *)
(***************************************************************************)
C2_StrictlyIncreasing ==
    [][ (Emits /\ hist.nemit >= 1) => ctx'.last_pts > ctx.last_pts ]_vars

(***************************************************************************)
(* C3.  A release hook that runs while ctx->done is clear leaves its       *)
(* CAPTURE slot queued at the device and marked enqueued.                  *)
(***************************************************************************)
C3_ReleasedLiveRequeued ==
    [][ \A i \in DOMAIN held :
          (ReleaseOf(i) /\ ctx.done = 0) =>
              /\ capture'.buffers[i].enqueued = 1
              /\ i \in dev'.queued.capture ]_vars

(***************************************************************************)
(* C4.  Once uninit has set ctx->done, no step queues a CAPTURE buffer at  *)
(* the device: a release hook running then leaves its slot unqueued and    *)
(* not marked enqueued, however many frames are outstanding and in         *)
(* whatever order they are released.                                       *)
(***************************************************************************)
C4_NoResubmitWhenDraining ==
    [][ ctx.done # 0 =>
          /\ dev'.queued.capture = dev.queued.capture
          /\ \A i \in DOMAIN held :
                ReleaseOf(i) =>
                    /\ i \notin dev'.queued.capture
                    /\ capture'.buffers[i].enqueued = 0 ]_vars

\* a frame was released after uninit while another is still outstanding,
\* and its slot is neither queued nor marked enqueued
C4_Witness ==
    /\ hist.late
    /\ ctx.done # 0
    /\ Outstanding > 0
    /\ \E i \in DOMAIN held :
          /\ i < capture.num_buffers
          /\ held[i] = 0
          /\ i \notin dev.queued.capture
          /\ capture.buffers[i].enqueued = 0

C6_StoppedWhenDraining ==
    ctx.done # 0 => (~dev.streaming.capture /\ ~dev.streaming.output)

(***************************************************************************)
(* C6, amended.  The streams are stopped when the context is Destroyed.    *)
(* While it is Draining (ctx->done set, frames outstanding) no             *)
(* VIDIOC_STREAMOFF has been issued and the CAPTURE stream is still on.    *)
(***************************************************************************)
C6_StoppedWhenDestroyed ==
    /\ Destroyed => (~dev.streaming.capture /\ ~dev.streaming.output)
    /\ Draining =>
          /\ dev.streamoff.capture = 0 /\ dev.streamoff.output = 0
          /\ dev.streaming.capture

\* Draining with both streams running
C6_Witness ==
    /\ Draining
    /\ dev.streaming.capture
    /\ dev.streaming.output

(***************************************************************************)
(* C7.  When the context is Destroyed every descriptor VIDIOC_EXPBUF       *)
(* returned, for any plane of any CAPTURE slot, has been closed exactly    *)
(* once.                                                                   *)
(***************************************************************************)
C7_AllExportedClosedOnce ==
    Destroyed => \A fd \in dev.exported : dev.closes[fd] = 1

(***************************************************************************)
(* C8.  On an OUTPUT pool of K slots from which the device has handed      *)
(* nothing back, the enqueued slots number the successful submissions;     *)
(* find_free_buf finds a slot while fewer than K submissions succeeded and *)
(* none once exactly K have; enqueue_frame on the full pool returns        *)
(* AVERROR(EAGAIN) and changes nothing.                                    *)
(***************************************************************************)
C8_Backpressure ==
    (pc = "configured" /\ output.buffers # NULL /\ ~hist.recycled) =>
        /\ count_enqueued(World, "output") = hist.submit_ok
        /\ hist.submit_ok <= output.num_buffers
        /\ deint_v4l2m2m_find_free_buf(World, "output") = NoBuf
              <=> hist.submit_ok = output.num_buffers
        /\ hist.submit_ok = output.num_buffers =>
              \A in \in InFrames, ok \in BOOLEAN :
                  LET e == deint_v4l2m2m_enqueue_frame(World, "output", in, {}, ok)
                  IN  e.ret = AVERROR_EAGAIN /\ e.w = World
        /\ (last.op = "filter_frame" /\ last.ret = AVERROR_EAGAIN) =>
              hist.submit_ok = output.num_buffers

\* the largest pool filled by as many submissions, nothing recycled, and
\* the submission after them refused with EAGAIN
C8_Witness ==
    /\ output.buffers # NULL
    /\ ~hist.recycled
    /\ output.num_buffers = MaxGrant
    /\ hist.submit_ok = MaxGrant
    /\ last.op = "filter_frame"
    /\ last.ret = AVERROR_EAGAIN

(***************************************************************************)
(* C9.  A CAPTURE pool of 2 slots has both queued at the device when       *)
(* allocate_buffers returns.  Every dequeue that returns a buffer returns  *)
(* a slot that was queued and that no outstanding frame wraps, so two      *)
(* dequeues return distinct slots; while both slots are wrapped by         *)
(* outstanding frames no dequeue returns a buffer, until a release hook    *)
(* has queued one again.                                                   *)
(***************************************************************************)
C9_TwoThenNone ==
    [][ (capture'.buffers # NULL /\ capture'.num_buffers = 2) =>
          /\ \A i \in {0, 1} :
                /\ held'[i] <= 1
                /\ held'[i] = 1 => i \notin dev'.queued.capture
                /\ i \in dev'.queued.capture <=> capture'.buffers[i].enqueued = 1
          /\ capture.buffers = NULL => dev'.queued.capture = {0, 1}
          /\ Emits =>
                \E i \in {0, 1} :
                    /\ i \in dev.queued.capture
                    /\ held[i] = 0
                    /\ held' = [held EXCEPT ![i] = 1]
                    /\ dev'.queued.capture = dev.queued.capture \ {i}
          /\ (held[0] = 1 /\ held[1] = 1) => ~Emits ]_vars

\* a pool of 2 that emitted three frames, two of them outstanding: the third
\* dequeue got the slot a release hook had queued again
C9_Witness ==
    /\ capture.buffers # NULL
    /\ capture.num_buffers = 2
    /\ hist.nemit = 3
    /\ held[0] = 1 /\ held[1] = 1
    /\ dev.queued.capture = {}
    /\ last.op = "request_frame"
    /\ last.ret = AVERROR_EAGAIN

C11_SetupOnce ==
    [][ /\ ctx'.field_order = V4L2_FIELD_ANY =>
              /\ last'.op # "filter_frame"
              /\ hist'.submit_ok = 0
              /\ output'.buffers = NULL /\ capture'.buffers = NULL
        /\ ctx'.field_order # ctx.field_order =>
              /\ ctx.field_order = V4L2_FIELD_ANY
              /\ last'.op = "filter_frame"
              /\ ctx'.field_order = IF last'.frame.top_field_first # 0
                                    THEN V4L2_FIELD_INTERLACED_TB
                                    ELSE V4L2_FIELD_INTERLACED_BT
        /\ ctx.field_order # V4L2_FIELD_ANY =>
              /\ ctx'.field_order = ctx.field_order
              /\ output'.num_buffers = output.num_buffers
              /\ capture'.num_buffers = capture.num_buffers
              /\ (output'.buffers = NULL) <=> (output.buffers = NULL)
              /\ (capture'.buffers = NULL) <=> (capture.buffers = NULL)
              /\ dev'.exported = dev.exported
              /\ \A qn \in QueueNames : dev'.streaming[qn] => dev.streaming[qn] ]_vars

\* a later frame of the other field order was submitted and the order fixed
\* by the first frame still stands
C11_Witness ==
    /\ ctx.field_order = V4L2_FIELD_INTERLACED_BT
    /\ hist.submit_ok >= 2
    /\ last.op = "filter_frame"
    /\ last.ret = 0
    /\ last.frame.top_field_first = 1

(***************************************************************************)
(* C12.  When the first frame's stream setup ends with the CAPTURE pool    *)
(* torn down after descriptors had been exported for it (allocate_buffers  *)
(* failed at some slot), filter_frame returns an error, the pool is NULL   *)
(* and every descriptor exported so far has been closed exactly once.      *)
(***************************************************************************)
C12_FailedAllocateCleansUp ==
    [][ ( /\ ctx.field_order = V4L2_FIELD_ANY
          /\ ctx'.field_order # V4L2_FIELD_ANY
          /\ capture'.buffers = NULL
          /\ dev'.exported # {} ) =>
              /\ last'.op = "filter_frame"
              /\ last'.ret # 0
              /\ \A fd \in dev'.exported : dev'.closes[fd] = 1 ]_vars

(***************************************************************************)
(* C13.  Before the first frame, whatever the frame and the device's       *)
(* answers: when the device rejects VIDIOC_S_FMT, VIDIOC_G_SELECTION or    *)
(* VIDIOC_S_SELECTION on either queue, the stream setup returns an error   *)
(* and has allocated no pool and started no stream.                        *)
(***************************************************************************)
C13_FormatFailureFatal ==
    (pc = "configured" /\ ctx.field_order = V4L2_FIELD_ANY) =>
        \A in \in ScenFrames(scen), s \in ScenScripts(scen) :
            (s.fmt_out # FmtOk \/ s.fmt_cap # FmtOk) =>
                LET r == StreamSetup(World, in, s)
                IN  /\ r.ret # 0
                    /\ r.w.capture.buffers = NULL
                    /\ r.w.output.buffers = NULL
                    /\ ~r.w.dev.streaming.capture
                    /\ ~r.w.dev.streaming.output

\* the answers the device can give to a dequeue on queue qn in this state
DeviceResps(qn) ==
    { [NoResp EXCEPT !.kind = k] :
        k \in {"timeout", "pollfail", "pollerr", "noevent", "dqbuf_err"} }
    \cup
    { [intr |-> 0, kind |-> k, later |-> "buf", index |-> i,
       timestamp |-> ts, flags_error |-> 0, field |-> V4L2_FIELD_NONE] :
        k \in {"timeout", "buf"}, i \in dev.queued[qn], ts \in DevTimestamps }

(***************************************************************************)
(* C14.  In every reachable state, a dequeue whose first poll times out    *)
(* (no event pending, no signal) returns NULL without polling again: it    *)
(* hands out no buffer, changes no slot and does not stay in the loop,     *)
(* whatever errno earlier system calls left behind.                        *)
(***************************************************************************)
C14_TimeoutReturns ==
    \A qn \in QueueNames :
        (pc = "configured" /\ Allocated(World, qn)) =>
            \A resp \in DeviceResps(qn) :
                resp.kind = "timeout" =>
                    LET d == deint_v4l2m2m_dequeue_buffer(World, qn, resp)
                    IN  /\ d.avbuf = NoBuf
                        /\ ~d.w.dev.spin
                        /\ d.w[qn] = World[qn]
                        /\ d.w.dev.queued = dev.queued

(***************************************************************************)
(* C15.  In every reachable state and for every answer of the device, a    *)
(* dequeue whose first n polls are interrupted by a signal gives the same  *)
(* result (the slot or NULL, the slots' state, returning at all) as the    *)
(* same dequeue with no interruption, for every n up to MaxIntr.           *)
(***************************************************************************)
C15_InterruptsTransparent ==
    \A qn \in QueueNames :
        (pc = "configured" /\ Allocated(World, qn)) =>
            \A resp \in DeviceResps(qn), n \in 1 .. MaxIntr :
                LET a == deint_v4l2m2m_dequeue_buffer(World, qn, [resp EXCEPT !.intr = n])
                    b == deint_v4l2m2m_dequeue_buffer(World, qn, resp)
                IN  /\ a.avbuf = b.avbuf
                    /\ a.w[qn] = b.w[qn]
                    /\ a.w.dev.queued = b.w.dev.queued
                    /\ a.w.dev.spin = b.w.dev.spin

(***************************************************************************)
(* C16.  In every reachable state and for every completed CAPTURE buffer   *)
(* the device can hand back, request_frame treats the buffer flagged       *)
(* V4L2_BUF_FLAG_ERROR as it treats the same buffer without the flag:      *)
(* where the unflagged buffer is emitted with result 0, the flagged one is *)
(* emitted with result 0 too, wraps the same slot, takes the same          *)
(* reference on the context and leaves the same slot and queue state,      *)
(* the only difference being the decode-error flag set on the frame.       *)
(***************************************************************************)
C16_ErrorFlagOnly ==
    (pc = "configured" /\ output.buffers # NULL /\ Allocated(World, "capture")) =>
        \A resp \in DeviceResps("capture"), R \in SUBSET dev.queued.output :
            resp.kind = "buf" =>
                LET bad  == deint_v4l2m2m_request_frame(World, FALSE, R,
                                [resp EXCEPT !.flags_error = 1], TRUE)
                    good == deint_v4l2m2m_request_frame(World, FALSE, R, resp, TRUE)
                IN  /\ bad.ret = good.ret
                    /\ good.ret = 0 =>
                          /\ bad.decode_error = 1 /\ good.decode_error = 0
                          /\ bad.avbuf = resp.index /\ good.avbuf = resp.index
                          /\ bad.pts = good.pts
                          /\ bad.w.ctx = good.w.ctx
                          /\ bad.w.ctx.refcount = ctx.refcount + 1
                          /\ bad.w.output = good.w.output
                          /\ bad.w.dev = good.w.dev
                          /\ bad.w.capture.buffers[resp.index].enqueued = 0
                          /\ bad.w.capture =
                                [good.w.capture EXCEPT
                                    !.buffers[resp.index].flags_error = 1]

\* a frame was emitted from a buffer the driver flagged as erroneous: the
\* call returned 0, the frame carries the flag and is held downstream
C16_Witness ==
    /\ pc = "configured"
    /\ last.op = "request_frame"
    /\ last.ret = 0
    /\ last.decode_error = 1
    /\ Outstanding > 0
    /\ ctx.refcount = References

(***************************************************************************)
(* C17.  A release hook that does not drop the last reference changes      *)
(* nothing but the reference count: the slots of both pools and the sets   *)
(* of buffers queued at the device are as before the step.                 *)
(***************************************************************************)
C17_ReleaseTouchesOnlyCount ==
    [][\A i \in DOMAIN held :
          (ReleaseOf(i) /\ ctx.refcount > 1) =>
              /\ ctx' = [ctx EXCEPT !.refcount = @ - 1]
              /\ capture' = capture
              /\ output' = output
              /\ dev'.queued = dev.queued]_vars

(***************************************************************************)
(* C18.  While the context exists, every slot of the OUTPUT pool is either *)
(* enqueued and holds the input frame it was filled with, or is not        *)
(* enqueued and holds no frame.                                            *)
(***************************************************************************)
C18_EnqueuedIffFrame ==
    (pc # "crashed" /\ output.buffers # NULL /\ ~Destroyed) =>
        \A i \in DOMAIN output.buffers :
            \/ output.buffers[i].enqueued # 0 /\ output.buffers[i].frame # NoFrame
            \/ output.buffers[i].enqueued = 0 /\ output.buffers[i].frame = NoFrame

(***************************************************************************)
(* C19.  In every reachable state before the stream setup and for every    *)
(* answer of the device, an allocate_buffers that returns 0                *)
(* leaves the pool with exactly the granted number of slots; on the        *)
(* CAPTURE queue every slot is enqueued, queued at the device and owns a   *)
(* newly exported descriptor for each of its planes; on the OUTPUT queue   *)
(* every slot is free, not queued, owns no descriptor (fd = -1) and        *)
(* nothing was exported.                                                   *)
(***************************************************************************)
C19_AllocatedPool ==
    \A qn \in QueueNames :
        (pc = "configured" /\ ctx.field_order = V4L2_FIELD_ANY) =>
            \A a \in AllocAnswers :
                LET r  == deint_v4l2m2m_allocate_buffers(World, qn, a)
                    q  == r.w[qn]
                    np == IF ctx.mplane THEN a.planes ELSE 1
                    new == r.w.dev.exported \ dev.exported
                IN  r.ret = 0 =>
                      /\ q.num_buffers = a.count
                      /\ DOMAIN q.buffers = 0 .. (a.count - 1)
                      /\ \A i \in DOMAIN q.buffers : q.buffers[i].q = qn
                      /\ IF V4L2_TYPE_IS_OUTPUT(qn)
                         THEN /\ \A i \in DOMAIN q.buffers :
                                    /\ q.buffers[i].enqueued = 0
                                    /\ q.buffers[i].fd = -1
                                    /\ q.buffers[i].frame = NoFrame
                              /\ r.w.dev.queued = dev.queued
                              /\ new = {}
                         ELSE /\ \A i \in DOMAIN q.buffers :
                                    /\ q.buffers[i].enqueued = 1
                                    /\ i \in r.w.dev.queued[qn]
                                    /\ q.buffers[i].fd \in new
                              /\ \A i, j \in DOMAIN q.buffers :
                                    i # j => q.buffers[i].fd # q.buffers[j].fd
                              /\ Cardinality(new) = a.count * np
                              /\ \A fd \in new : r.w.dev.closes[fd] = 0

\* the setup allocated both pools at the largest granted CAPTURE count:
\* every CAPTURE slot was queued and exported, the OUTPUT slots own no
\* descriptor
C19_Witness ==
    /\ pc = "configured"
    /\ output.buffers # NULL
    /\ capture.buffers # NULL
    /\ capture.num_buffers = MaxGrant
    /\ \A i \in DOMAIN capture.buffers : capture.buffers[i].fd \in dev.exported
    /\ dev.queued.capture = DOMAIN capture.buffers
    /\ \A i \in DOMAIN output.buffers : output.buffers[i].fd = -1

(***************************************************************************)
(* C20.  In every reachable state and for every completed CAPTURE buffer,  *)
(* a dequeue_frame that returns 0 emits the device's timestamp unchanged   *)
(* when it is present (not the sentinel) and differs from the last emitted *)
(* pts, and the last emitted pts plus the frame interval otherwise; the    *)
(* emitted pts is the new ctx->last_pts and is the timestamp written back  *)
(* to the slot.                                                            *)
(***************************************************************************)
C20_TimestampRule ==
    (pc = "configured" /\ Allocated(World, "capture")) =>
        \A resp \in DeviceResps("capture"), alloc_ok \in BOOLEAN :
            LET r       == deint_v4l2m2m_dequeue_frame(World, resp, alloc_ok)
                present == ~(resp.timestamp.tv_sec = NOPTS_TV_SEC
                             /\ resp.timestamp.tv_usec = 0)
                device  == resp.timestamp.tv_sec * USEC_PER_SEC + resp.timestamp.tv_usec
                emitted == IF present /\ device # ctx.last_pts
                           THEN device
                           ELSE ctx.last_pts + ctx.frame_interval
            IN  r.ret = 0 =>
                  /\ r.avbuf = resp.index
                  /\ r.pts = emitted
                  /\ r.w.ctx.last_pts = emitted
                  /\ r.w.capture.buffers[r.avbuf].timestamp = v4l2_set_pts(emitted)
                  /\ v4l2_get_pts(r.w.capture.buffers[r.avbuf].timestamp) = emitted

\* two frames were emitted from buffers with the same device timestamp:
\* the first went out with it, the second with it plus the interval, which
\* is the last emitted pts and the slot's timestamp
C20_Witness ==
    LET t == CHOOSE d \in DevTimestamps : d.tv_usec # 0
    IN  /\ pc = "configured"
        /\ hist.nemit >= 2
        /\ last.op = "request_frame"
        /\ last.ret = 0
        /\ ctx.last_pts = v4l2_get_pts(t) + ctx.frame_interval
        /\ \E i \in DOMAIN capture.buffers :
              /\ capture.buffers[i].enqueued = 0
              /\ capture.buffers[i].timestamp = v4l2_set_pts(ctx.last_pts)

(***************************************************************************)
(* The timestamp codec on the whole range of int64_t.  A pts of 10^12 and  *)
(* more does not fit the checker's integers, so a 64-bit value is held as  *)
(* two limbs, hi * USEC_PER_SEC + lo; AV_NOPTS_VALUE (INT64_MIN) is the    *)
(* value whose hi limb is the least integer.  Norm64 gives the quotient    *)
(* and remainder of C's division by USEC_PER_SEC (truncation toward zero). *)
(***************************************************************************)
Norm64(hi, lo) ==
    LET q == hi + CDiv(lo, USEC_PER_SEC)
        r == CRem(lo, USEC_PER_SEC)
    IN  IF q > 0 /\ r < 0 THEN [hi |-> q - 1, lo |-> r + USEC_PER_SEC]
        ELSE IF q < 0 /\ r > 0 THEN [hi |-> q + 1, lo |-> r - USEC_PER_SEC]
        ELSE [hi |-> q, lo |-> r]

AV_NOPTS_VALUE64 == [hi |-> AV_NOPTS_VALUE, lo |-> 0]

v4l2_set_pts64(pts) ==
    IF pts = AV_NOPTS_VALUE64
    THEN [tv_sec |-> NOPTS_TV_SEC, tv_usec |-> 0]
    ELSE [tv_sec |-> Norm64(pts.hi, pts.lo).hi, tv_usec |-> Norm64(pts.hi, pts.lo).lo]

v4l2_get_pts64(ts) ==
    IF ts.tv_sec = NOPTS_TV_SEC /\ ts.tv_usec = 0
    THEN AV_NOPTS_VALUE64
    ELSE Norm64(ts.tv_sec, ts.tv_usec)

\* the pts values the codec is run on: no timestamp, and real timestamps
\* (negative, zero, positive) around zero and around the sentinel's seconds
Pts64 ==
    {AV_NOPTS_VALUE64} \cup
    { Norm64(sg * sec, sg * usec) :
        sg \in {-1, 1},
        sec \in (0 .. MaxSec) \cup ((NOPTS_TV_SEC - 1) .. (NOPTS_TV_SEC + MaxSec - 2)),
        usec \in {0, 1, USEC_PER_SEC \div 2, USEC_PER_SEC - 1} }

\* a buffer's timestamp is written from a pts and read back
InitPts ==
    /\ ctx = [fd |-> -1, done |-> 0, refcount |-> 1,
              field_order |-> V4L2_FIELD_ANY, last_pts |-> 0,
              frame_interval |-> FRAME_INTERVAL, mplane |-> FALSE]
    /\ output = [num_buffers |-> 1, buffers |-> [i \in {0} |-> ZeroBuffer]]
    /\ capture = [num_buffers |-> CAPTURE_NUM_BUFFERS, buffers |-> NULL]
    /\ dev = [queued |-> [output |-> {}, capture |-> {}],
              streaming |-> [output |-> FALSE, capture |-> FALSE],
              streamoff |-> [output |-> 0, capture |-> 0],
              exported |-> {},
              closes |-> [fd \in Fds |-> 0],
              ctx_freed |-> 0,
              errno |-> 0,
              spin |-> FALSE,
              calls |-> <<>>]
    /\ held = [i \in 0 .. (MaxGrant - 1) |-> 0]
    /\ hist = [nemit |-> 0, submit_ok |-> 0, recycled |-> FALSE, late |-> FALSE]
    /\ last = [op |-> "init", in |-> AV_NOPTS_VALUE64, pts |-> AV_NOPTS_VALUE64]
    /\ pc = "codec"
    /\ scen = "frames"
    /\ hook = [i \in 0 .. (MaxGrant - 1) |-> "idle"]

\* v4l2_set_pts(out, pts)
SetPts ==
    /\ pc = "codec"
    /\ \E pts \in Pts64 :
         /\ output' = [output EXCEPT !.buffers[0].timestamp = v4l2_set_pts64(pts)]
         /\ last' = [op |-> "v4l2_set_pts", in |-> pts, pts |-> pts]
    /\ UNCHANGED <<ctx, capture, dev, held, hist, pc, scen, hook>>

\* v4l2_get_pts(avbuf) on the buffer just written
GetPts ==
    /\ pc = "codec"
    /\ last.op = "v4l2_set_pts"
    /\ last' = [op |-> "v4l2_get_pts", in |-> last.in,
                pts |-> v4l2_get_pts64(output.buffers[0].timestamp)]
    /\ UNCHANGED <<ctx, output, capture, dev, held, hist, pc, scen, hook>>

NextPts ==
    \/ SetPts
    \/ GetPts

SpecPts == InitPts /\ [][NextPts]_vars

(***************************************************************************)
(* C21.  Whatever pts was encoded into the buffer's timestamp, decoding it *)
(* returns that pts: a real timestamp comes back as itself, and            *)
(* AV_NOPTS_VALUE comes back only when AV_NOPTS_VALUE was encoded.         *)
(***************************************************************************)
C21_RoundTrip ==
    (pc = "codec" /\ last.op = "v4l2_get_pts") => last.pts = last.in

(***************************************************************************)
(* C22.  In every reachable state with an allocated OUTPUT pool and for    *)
(* every input frame, the buffer a successful enqueue_frame hands to the   *)
(* device has the field order of the frame's flags alone:                  *)
(* V4L2_FIELD_INTERLACED_TB when the frame is top-field-first,             *)
(* V4L2_FIELD_INTERLACED_BT otherwise, whatever the slot held before.      *)
(***************************************************************************)
C22_FieldFromFrame ==
    (pc = "configured" /\ output.buffers # NULL) =>
        \A in \in InFrames, R \in SUBSET dev.queued.output :
            LET e == deint_v4l2m2m_enqueue_frame(World, "output", in, R, TRUE)
            IN  e.ret = 0 =>
                  e.w.output.buffers[e.buf].field =
                      IF in.top_field_first # 0
                      THEN V4L2_FIELD_INTERLACED_TB
                      ELSE V4L2_FIELD_INTERLACED_BT

\* a milestone (call c on queue qn, succeeding) is recorded before position k
Earlier(c, qn, k) ==
    \E j \in 1 .. (k - 1) : dev.calls[j] = [call |-> c, q |-> qn, ok |-> TRUE]

(***************************************************************************)
(* C23.  In the order the device saw them: when a pool is allocated, the   *)
(* format has been committed (VIDIOC_S_FMT accepted) on both queues; when  *)
(* a stream is started, its pool has been allocated; when the first frame  *)
(* is submitted to the OUTPUT queue, both streams have been started.       *)
(***************************************************************************)
C23_SetupOrder ==
    \A k \in DOMAIN dev.calls :
        LET c == dev.calls[k]
        IN  /\ c.call = "ALLOC" =>
                  \A qn \in QueueNames : Earlier("S_FMT", qn, k)
            /\ c.call = "STREAMON" => Earlier("ALLOC", c.q, k)
            /\ c.call = "QBUF" =>
                  \A qn \in QueueNames : Earlier("STREAMON", qn, k)

(***************************************************************************)
(* C24.  While the stream is set up and the filter is live, every CAPTURE  *)
(* slot is either queued at the device and held by no frame, or out of the *)
(* device's queue and held by exactly one frame downstream.                *)
(***************************************************************************)
C24_QueuedOrHeld ==
    (/\ pc = "configured"
     /\ ctx.done = 0
     /\ capture.buffers # NULL
     /\ dev.streaming.capture /\ dev.streaming.output) =>
        \A i \in DOMAIN capture.buffers :
            \/ i \in dev.queued.capture /\ capture.buffers[i].enqueued = 1 /\ held[i] = 0
            \/ i \notin dev.queued.capture /\ held[i] = 1

(***************************************************************************)
(* C25.  In every reachable state before the stream setup and for every    *)
(* answer of the device, an allocate_buffers that fails closes only        *)
(* descriptors it exported in that call: no other descriptor is closed.    *)
(***************************************************************************)
C25_ClosesOnlyExported ==
    \A qn \in QueueNames :
        (pc = "configured" /\ ctx.field_order = V4L2_FIELD_ANY) =>
            \A a \in AllocAnswers :
                LET r == deint_v4l2m2m_allocate_buffers(World, qn, a)
                IN  r.ret # 0 =>
                      \A fd \in Fds :
                          r.w.dev.closes[fd] > dev.closes[fd] =>
                              fd \in r.w.dev.exported \ dev.exported

(***************************************************************************)
(* C26.  No filter_frame reaches find_free_buf on an OUTPUT pool that is   *)
(* not allocated (reading the slots through the NULL pointer), and when    *)
(* the first frame is queued on the OUTPUT queue both pools have been      *)
(* allocated and both streams started.                                     *)
(***************************************************************************)
C26_SubmitNeedsSetup ==
    /\ ~(pc = "crashed" /\ last.op = "filter_frame")
    /\ \A k \in DOMAIN dev.calls :
          dev.calls[k].call = "QBUF" =>
              \A qn \in QueueNames :
                  Earlier("ALLOC", qn, k) /\ Earlier("STREAMON", qn, k)

(***************************************************************************)
(* Release hooks step by step.  A frame's release hook runs on the thread  *)
(* that drops the frame; hook[i] is the position of the hook of the frame  *)
(* wrapping CAPTURE slot i:                                                *)
(*   "idle"     not running                                                *)
(*   "requeue"  read buf->q->ctx and found ctx->done clear; before         *)
(*              deint_v4l2m2m_enqueue_buffer                               *)
(*   "unref"    before deint_v4l2m2m_destroy_context                       *)
(* The pipeline thread's uninit is two steps as well: ctx->done = 1        *)
(* (pc "closing"), then deint_v4l2m2m_destroy_context (pc "uninit").       *)
(* A run starts after the first frame set the stream up with n CAPTURE     *)
(* slots and the frames of the slots in S were emitted.                    *)
(***************************************************************************)
Configured ==
    [ctx |-> [fd |-> DevFd, done |-> 0, refcount |-> 1,
              field_order |-> V4L2_FIELD_ANY, last_pts |-> 0,
              frame_interval |-> FRAME_INTERVAL, mplane |-> FALSE],
     output |-> [num_buffers |-> OUTPUT_NUM_BUFFERS, buffers |-> NULL],
     capture |-> [num_buffers |-> CAPTURE_NUM_BUFFERS, buffers |-> NULL],
     dev |-> [queued |-> [output |-> {}, capture |-> {}],
              streaming |-> [output |-> FALSE, capture |-> FALSE],
              streamoff |-> [output |-> 0, capture |-> 0],
              exported |-> {},
              closes |-> [fd \in Fds |-> 0],
              ctx_freed |-> 0,
              errno |-> 0,
              spin |-> FALSE,
              calls |-> <<>>]]

Completed(i) ==
    [intr |-> 0, kind |-> "buf", later |-> "never", index |-> i,
     timestamp |-> NoTimestamp, flags_error |-> 0, field |-> V4L2_FIELD_NONE]

RECURSIVE EmitFrames(_, _)
EmitFrames(w, S) ==
    IF S = {}
    THEN w
    ELSE Bind(CHOOSE i \in S : \A j \in S : i <= j, LAMBDA i :
         EmitFrames(deint_v4l2m2m_request_frame(w, FALSE, {}, Completed(i), TRUE).w,
                    S \ {i}))

Streaming(n) ==
    deint_v4l2m2m_filter_frame(Configured, OneFrame,
        [fmt_out |-> FmtOk, fmt_cap |-> FmtOk, alloc_cap |-> AllocOk(n, 1),
         son_cap |-> TRUE, alloc_out |-> AllocOk(1, 1), son_out |-> TRUE],
        {}, TRUE).w

InitHooks ==
    \E n \in 1 .. MaxGrant :
      \E S \in SUBSET (0 .. (n - 1)) :
        \E w \in {EmitFrames(Streaming(n), S)} :
            /\ ctx = w.ctx
            /\ output = w.output
            /\ capture = w.capture
            /\ dev = w.dev
            /\ held = [i \in 0 .. (MaxGrant - 1) |-> IF i \in S THEN 1 ELSE 0]
            /\ hist = [nemit |-> Cardinality(S), submit_ok |-> 1,
                       recycled |-> FALSE, late |-> FALSE]
            /\ last = [op |-> "init", ret |-> 0]
            /\ pc = "configured"
            /\ scen = "capture"
            /\ hook = [i \in 0 .. (MaxGrant - 1) |-> "idle"]

\* v4l2_free_buffer: ctx = buf->q->ctx; if (!ctx->done).  done is a plain
\* int written by uninit on another thread with nothing ordering the two:
\* the read yields the value stored or the one from before the store
HookLoad ==
    /\ \E i \in DOMAIN held, d \in {ctx.done, 0} :
         /\ held[i] > 0
         /\ hook[i] = "idle"
         /\ hook' = [hook EXCEPT ![i] = IF d = 0 THEN "requeue" ELSE "unref"]
    /\ UNCHANGED <<ctx, output, capture, dev, held, hist, last, pc, scen>>

\* v4l2_free_buffer: deint_v4l2m2m_enqueue_buffer(buf), result ignored
HookRequeue ==
    /\ \E i \in DOMAIN held, ok \in BOOLEAN :
         /\ hook[i] = "requeue"
         /\ \E w \in {deint_v4l2m2m_enqueue_buffer(World, "capture", i, ok).w} :
                Commit([w EXCEPT !.dev.errno = dev.errno])
         /\ hook' = [hook EXCEPT ![i] = "unref"]
    /\ UNCHANGED <<held, hist, last, pc, scen>>

\* v4l2_free_buffer: deint_v4l2m2m_destroy_context(ctx); the hook returns.
\* hist.late records a decrement made after uninit's own
HookUnref ==
    /\ \E i \in DOMAIN held :
         /\ hook[i] = "unref"
         /\ \E w \in {deint_v4l2m2m_destroy_context(World)} : Commit(w)
         /\ hook' = [hook EXCEPT ![i] = "idle"]
         /\ held' = [held EXCEPT ![i] = @ - 1]
    /\ hist' = [hist EXCEPT !.late = @ \/ pc = "uninit"]
    /\ UNCHANGED <<last, pc, scen>>

\* deint_v4l2m2m_uninit: ctx->done = 1
UninitDone ==
    /\ pc = "configured"
    /\ ctx' = [ctx EXCEPT !.done = 1]
    /\ pc' = "closing"
    /\ UNCHANGED <<output, capture, dev, held, hist, last, scen, hook>>

\* deint_v4l2m2m_uninit: deint_v4l2m2m_destroy_context(ctx)
UninitUnref ==
    /\ pc = "closing"
    /\ \E w \in {deint_v4l2m2m_destroy_context(World)} : Commit(w)
    /\ pc' = "uninit"
    /\ UNCHANGED <<held, hist, last, scen, hook>>

NextHooks ==
    \/ HookLoad
    \/ HookRequeue
    \/ HookUnref
    \/ UninitDone
    \/ UninitUnref

SpecHooks == InitHooks /\ [][NextHooks]_vars

(***************************************************************************)
(* C27.  Under every interleaving of the steps of the release hooks and of *)
(* uninit: once the context is destroyed no hook is between its first read *)
(* of the context and its decrement, no frame is left whose hook could     *)
(* still start, and uninit has made its decrement; the context was         *)
(* destroyed once, by the decrement that took the count to zero; and the   *)
(* count is always the number of threads that have not decremented yet.    *)
(***************************************************************************)
C27_NoAccessAfterDestroy ==
    /\ ctx.refcount = (IF pc = "uninit" THEN 0 ELSE 1) + Outstanding
    /\ Destroyed <=> ctx.refcount = 0
    /\ Destroyed =>
          /\ dev.ctx_freed = 1
          /\ pc = "uninit"
          /\ \A i \in DOMAIN held : hook[i] = "idle" /\ held[i] = 0

\* the context was destroyed after every slot's frame had been emitted,
\* uninit ran while hooks were under way (a frame was released after it),
\* and a hook that had read ctx->done clear put its slot back in the queue
C27_Witness ==
    /\ Destroyed
    /\ hist.nemit = MaxGrant
    /\ hist.late
    /\ ctx.done = 1
    /\ dev.queued.capture # {}

=============================================================================
